---- MODULE Spec2Model ----
(***************************************************************************)
(* Model of the item service in src/1: the store operations of crud.py,    *)
(* the token issue/resolve functions of auth.py, the field validation of   *)
(* schemas.py and the routes of main.py that tie them together.            *)
(*                                                                         *)
(* Python strings are sequences of one-character strings, so that          *)
(* concatenation, split, startswith, lower and LIKE are computed.          *)
(* An Optional value is <<>> (None) or <<v>> (a present value v).          *)
(***************************************************************************)
EXTENDS Integers, Sequences, FiniteSets, TLC

(* users, items: the rows of the two tables of models.py                  *)
(* creator:      history variable, item id -> username of the caller whose *)
(*               create request stored the item                            *)
(* resp:         the outcome of the last request                           *)
(* sess:         the store calls in flight that are followed step by step, *)
(*               request number -> the call, its position and what its     *)
(*               session holds; empty where each request is one step       *)
VARIABLES users, items, creator, resp, sess

vars == <<users, items, creator, resp, sess>>

----------------------------------------------------------------------------
(* Bounds of the model *)

MaxItems == 2
MaxItemId == 2

----------------------------------------------------------------------------
(* Optional values *)

None == <<>>
Some(v) == <<v>>

----------------------------------------------------------------------------
(* String literals of the program and of the requests *)

TokenPrefix == <<"t","o","k","e","n","-">>
HashPrefix == <<"f","a","k","e","h","a","s","h","e","d">>
Alice == <<"a","l","i","c","e">>
Secret == <<"s","e","c","r","e","t">>
AliceDev == <<"A","l","i","c","e"," ","D","e","v">>
Badword == <<"b","a","d","w","o","r","d">>

AB == <<"a","-","b">>
Zed == <<"z","e","d">>
ShortName == <<"a","b">>
Hunter == <<"h","u","n","t","e","r","2">>
ShortPass == <<"a","b","c">>

BlueWidget == <<"B","l","u","e"," ","W","i","d","g","e","t">>
BadBadwordHere == <<"B","a","d"," ","b","a","d","w","o","r","d"," ","h","e","r","e">>
ShoutBadword == <<"B","A","D","W","O","R","D","!">>
WidgetUpper == <<"W","I","D","G","E","T">>
Widget == <<"w","i","d","g","e","t">>
LikeTerm == <<"b","_","u","e">>
Tok == <<"t","o","k">>
TokenCapital == <<"T","o","k","e","n","-">>

----------------------------------------------------------------------------
(* Characters *)

UpperLetters == <<"A","B","C","D","E","F","G","H","I","J","K","L","M",
                  "N","O","P","Q","R","S","T","U","V","W","X","Y","Z">>
LowerLetters == <<"a","b","c","d","e","f","g","h","i","j","k","l","m",
                  "n","o","p","q","r","s","t","u","v","w","x","y","z">>
Digits == <<"0","1","2","3","4","5","6","7","8","9">>

(* the characters of the model in code-point order *)
CodePoints == <<" ","!","$","%","'",",","-",".">> \o Digits \o UpperLetters
                \o <<"_">> \o LowerLetters

Range(s) == {s[i] : i \in 1..Len(s)}

Ord(c) == CHOOSE i \in 1..Len(CodePoints) : CodePoints[i] = c

LowerChar(c) ==
    IF c \in Range(UpperLetters)
    THEN LowerLetters[CHOOSE i \in 1..26 : UpperLetters[i] = c]
    ELSE c

(* str.lower() *)
Lower(s) == [i \in 1..Len(s) |-> LowerChar(s[i])]

(* str.startswith(p) *)
StartsWith(s, p) == Len(s) >= Len(p) /\ SubSeq(s, 1, Len(p)) = p

(* t in s *)
Contains(s, t) == \E i \in 0..(Len(s) - Len(t)) : SubSeq(s, i + 1, i + Len(t)) = t

----------------------------------------------------------------------------
(* schemas.py: field validation done at the request boundary *)

UsernameMinLen == 3
UsernameMaxLen == 50
PasswordMinLen == 6
TitleMinLen == 3
TitleMaxLen == 200
DescriptionMaxLen == 2000

(* the character class of the title pattern ^[A-Za-z0-9 '\-_,\.]+$ *)
TitleChars == Range(UpperLetters) \cup Range(LowerLetters) \cup Range(Digits)
                \cup {" ", "'", "-", "_", ",", "."}

MatchesTitlePattern(v) == Len(v) >= 1 /\ \A i \in 1..Len(v) : v[i] \in TitleChars

banned == {Badword}

(* ItemBase.no_banned_words: raises when any(b in v.lower() for b in banned) *)
no_banned_words(v) == ~ \E b \in banned : Contains(Lower(v), b)

ValidDescription(d) == d = None \/ Len(d[1]) <= DescriptionMaxLen

(* UserCreate: username 3..50 characters, password at least 6 *)
ValidUserCreate(user_in) ==
    /\ Len(user_in.username) >= UsernameMinLen
    /\ Len(user_in.username) <= UsernameMaxLen
    /\ Len(user_in.password) >= PasswordMinLen

(* ItemCreate = ItemBase: length, pattern and the banned-word validator *)
ValidItemCreate(item_in) ==
    /\ Len(item_in.title) >= TitleMinLen
    /\ Len(item_in.title) <= TitleMaxLen
    /\ MatchesTitlePattern(item_in.title)
    /\ no_banned_words(item_in.title)
    /\ ValidDescription(item_in.description)

(* ItemUpdate.title_validator: raises when v and len(v) < 3 *)
title_validator(v) == ~ (Len(v) > 0 /\ Len(v) < 3)

(* ItemUpdate: an optional title with the length limits only *)
ValidItemUpdate(item_in) ==
    /\ \/ item_in.title = None
       \/ /\ Len(item_in.title[1]) >= TitleMinLen
          /\ Len(item_in.title[1]) <= TitleMaxLen
          /\ title_validator(item_in.title[1])
    /\ ValidDescription(item_in.description)

----------------------------------------------------------------------------
(* crud.py: users *)

fake_hash_password(password) == HashPrefix \o password

(* select ... where username == username; .first() *)
get_user_by_username(us, username) ==
    LET found == {u \in us : u.username = username}
    IN  IF found = {} THEN None ELSE Some(CHOOSE u \in found : TRUE)

MaxOf(S) == IF S = {} THEN 0 ELSE CHOOSE m \in S : \A n \in S : n <= m

(* an INTEGER PRIMARY KEY row gets the largest stored id plus one *)
NextId(rows) == MaxOf({r.id : r \in rows}) + 1

(* create_user on a username column without the unique index *)
create_userNoUnique(us, user_in) ==
    LET user == [id |-> NextId(us),
                 username |-> user_in.username,
                 full_name |-> user_in.full_name,
                 hashed_password |-> fake_hash_password(user_in.password)]
    IN  [users |-> us \cup {user}, result |-> Some(user)]

(* create_user: the unique username column rejects a second row *)
create_user(us, user_in) ==
    IF \E u \in us : u.username = user_in.username
    THEN [users |-> us, result |-> None]
    ELSE LET user == [id |-> NextId(us),
                      username |-> user_in.username,
                      full_name |-> user_in.full_name,
                      hashed_password |-> fake_hash_password(user_in.password)]
         IN  [users |-> us \cup {user}, result |-> Some(user)]

----------------------------------------------------------------------------
(* auth.py *)

authenticate_user_and_get_token(us, username, password) ==
    LET user == get_user_by_username(us, username)
    IN  IF user # None /\ user[1].hashed_password = fake_hash_password(password)
        THEN Some(TokenPrefix \o username)
        ELSE IF username = Alice /\ password = Secret
             THEN Some(TokenPrefix \o username)
             ELSE None

(* the part after the last "-", as token.rsplit("-", 1)[1] gives *)
SplitLast(token) ==
    LET i == CHOOSE k \in 1..Len(token) :
                 token[k] = "-" /\ \A j \in (k + 1)..Len(token) : token[j] # "-"
    IN  SubSeq(token, i + 1, Len(token))

(* token.split("-", 1)[1] for a token that contains "-" *)
SplitFirst(token) ==
    LET i == CHOOSE k \in 1..Len(token) :
                 token[k] = "-" /\ \A j \in 1..(k - 1) : token[j] # "-"
    IN  SubSeq(token, i + 1, Len(token))

UserOut(user) == [id |-> user.id, username |-> user.username, full_name |-> user.full_name]

Rejected(detail) == [state |-> "Rejected", detail |-> detail, user |-> None]
UserResolved(user) == [state |-> "UserResolved", detail |-> "", user |-> Some(user)]

(* get_current_user giving the fallback user for every unknown username *)
get_current_userAnyFallback(us, token) ==
    IF token = None
    THEN Rejected("Not authenticated")
    ELSE IF Len(token[1]) = 0 \/ ~ StartsWith(token[1], TokenPrefix)
    THEN Rejected("Invalid authentication credentials")
    ELSE LET username == SplitFirst(token[1])
             user == get_user_by_username(us, username)
         IN  IF user = None
             THEN UserResolved([id |-> 0, username |-> Alice, full_name |-> Some(AliceDev)])
             ELSE UserResolved(UserOut(user[1]))

(* token is None when the request carries no bearer credential *)
get_current_user(us, token) ==
    IF token = None
    THEN Rejected("Not authenticated")
    ELSE IF Len(token[1]) = 0 \/ ~ StartsWith(token[1], TokenPrefix)
    THEN Rejected("Invalid authentication credentials")
    ELSE LET username == SplitFirst(token[1])
             user == get_user_by_username(us, username)
         IN  IF user = None
             THEN IF username = Alice
                  THEN UserResolved([id |-> 0, username |-> Alice, full_name |-> Some(AliceDev)])
                  ELSE Rejected("User not found")
             ELSE UserResolved(UserOut(user[1]))

----------------------------------------------------------------------------
(* crud.py: items *)

(* create_item binding the first stored user instead of the caller *)
create_itemFirstUser(us, its, item_in, owner_username) ==
    IF us = {}
    THEN [items |-> its, result |-> None, error |-> "owner not found"]
    ELSE LET owner == CHOOSE u \in us : \A v \in us : u.id <= v.id
             item == [id |-> NextId(its),
                      title |-> item_in.title,
                      description |-> item_in.description,
                      owner_id |-> owner.id]
         IN  [items |-> its \cup {item}, result |-> Some(item), error |-> ""]

(* create_item storing the item under owner id 0 when no owner row is found *)
create_itemUnknownOwner(us, its, item_in, owner_username) ==
    LET owner == get_user_by_username(us, owner_username)
        item == [id |-> NextId(its),
                 title |-> item_in.title,
                 description |-> item_in.description,
                 owner_id |-> IF owner = None THEN 0 ELSE owner[1].id]
    IN  [items |-> its \cup {item}, result |-> Some(item), error |-> ""]

(* create_item: the owner is looked up by username; ValueError when absent *)
create_item(us, its, item_in, owner_username) ==
    LET owner == get_user_by_username(us, owner_username)
    IN  IF owner = None
        THEN [items |-> its, result |-> None, error |-> "owner not found"]
        ELSE LET item == [id |-> NextId(its),
                          title |-> item_in.title,
                          description |-> item_in.description,
                          owner_id |-> owner[1].id]
             IN  [items |-> its \cup {item}, result |-> Some(item), error |-> ""]

get_item(its, item_id) ==
    LET found == {i \in its : i.id = item_id}
    IN  IF found = {} THEN None ELSE Some(CHOOSE i \in found : TRUE)

(* the lookup without the owner condition *)
OwnedItemAnyOwner(us, its, item_id, owner_username) ==
    LET found == {i \in its : i.id = item_id}
    IN  IF found = {} THEN None ELSE Some(CHOOSE i \in found : TRUE)

(* select(Item).join(User).where(Item.id == item_id, User.username == owner_username) *)
OwnedItem(us, its, item_id, owner_username) ==
    LET found == {i \in its : /\ i.id = item_id
                              /\ \E u \in us : /\ u.id = i.owner_id
                                               /\ u.username = owner_username}
    IN  IF found = {} THEN None ELSE Some(CHOOSE i \in found : TRUE)

(* update_item writing the description whether it is provided or not *)
ApplyPatchDescriptionAlways(item, item_in) ==
    [item EXCEPT !.title = IF item_in.title # None THEN item_in.title[1] ELSE @,
                 !.description = item_in.description]

(* the assignments of update_item: only the provided fields are written *)
ApplyPatch(item, item_in) ==
    [item EXCEPT !.title = IF item_in.title # None THEN item_in.title[1] ELSE @,
                 !.description = IF item_in.description # None
                                 THEN item_in.description ELSE @]

update_item(us, its, item_id, item_in, owner_username) ==
    LET item == OwnedItem(us, its, item_id, owner_username)
    IN  IF item = None
        THEN [items |-> its, result |-> None]
        ELSE LET updated == ApplyPatch(item[1], item_in)
             IN  [items |-> (its \ {item[1]}) \cup {updated}, result |-> Some(updated)]

(* delete_item removing every item of the owner of the item found *)
delete_itemAllOfOwner(us, its, item_id, owner_username) ==
    LET item == OwnedItem(us, its, item_id, owner_username)
    IN  IF item = None
        THEN [items |-> its, result |-> FALSE]
        ELSE [items |-> {i \in its : i.owner_id # item[1].owner_id}, result |-> TRUE]

delete_item(us, its, item_id, owner_username) ==
    LET item == OwnedItem(us, its, item_id, owner_username)
    IN  IF item = None
        THEN [items |-> its, result |-> FALSE]
        ELSE [items |-> its \ {item[1]}, result |-> TRUE]

----------------------------------------------------------------------------
(* crud.py: get_items *)

Min(a, b) == IF a <= b THEN a ELSE b
Max(a, b) == IF a >= b THEN a ELSE b

(* SQL LIKE without ESCAPE: % is any run of characters, _ any one character, *)
(* every other character matches itself; ilike compares lower-cased operands *)
RECURSIVE Like(_, _)
Like(s, pat) ==
    IF pat = <<>> THEN s = <<>>
    ELSE IF Head(pat) = "%"
         THEN Like(s, Tail(pat)) \/ (s # <<>> /\ Like(Tail(s), pat))
    ELSE IF s = <<>> THEN FALSE
    ELSE IF Head(pat) = "_" THEN Like(Tail(s), Tail(pat))
    ELSE Head(pat) = Head(s) /\ Like(Tail(s), Tail(pat))

ilike(column, term) == column # None /\ Like(Lower(column[1]), Lower(term))

(* (Item.title.ilike(term)) | (Item.description.ilike(term)) with term = %q% *)
SearchFilter(item, q) ==
    LET term == <<"%">> \o q \o <<"%">>
    IN  ilike(Some(item.title), term) \/ ilike(item.description, term)

(* "if q:" is false for None and for the empty string *)
HasTerm(q) == q # None /\ q[1] # <<>>

(* count_q: select count(Item.id) [where filter], no join *)
CountQuery(its, q) ==
    Cardinality({i \in its : HasTerm(q) => SearchFilter(i, q[1])})

(* query: select(Item).join(User) [where filter] *)
PageQuery(us, its, q) ==
    {i \in its : /\ \E u \in us : u.id = i.owner_id
                 /\ HasTerm(q) => SearchFilter(i, q[1])}

ItemColumns == {"id", "title", "description", "owner_id"}

(* class attributes of models.Item that are not columns: declarative Base    *)
(* gives every mapped class these two; asc()/desc() of them raises           *)
NonColumnAttributes == {"metadata", "registry"}

(* hasattr(models.Item, sort_by) *)
hasattr_Item(sort_by) == sort_by \in ItemColumns \cup NonColumnAttributes

(* sort_col: Item.id unless the name is an attribute of the class *)
SortCol(sort_by) == IF hasattr_Item(sort_by) THEN sort_by ELSE "id"

(* string comparison by code point *)
StrLess(a, b) ==
    \E k \in 1..(Min(Len(a), Len(b)) + 1) :
        /\ \A j \in 1..(k - 1) : a[j] = b[j]
        /\ \/ k > Len(a) /\ k <= Len(b)
           \/ k <= Len(a) /\ k <= Len(b) /\ Ord(a[k]) < Ord(b[k])

(* column order; NULL sorts before every value *)
ColLess(col, a, b) ==
    CASE col = "id" -> a.id < b.id
      [] col = "owner_id" -> a.owner_id < b.owner_id
      [] col = "title" -> StrLess(a.title, b.title)
      [] col = "description" ->
            \/ a.description = None /\ b.description # None
            \/ /\ a.description # None /\ b.description # None
               /\ StrLess(a.description[1], b.description[1])

(* the orders a database may return for ORDER BY col: rows with equal keys *)
(* come in any order                                                       *)
OrderBy(rows, col, order) ==
    LET n == Cardinality(rows)
    IN  {s \in [1..n -> rows] :
            /\ \A i, j \in 1..n : i # j => s[i] # s[j]
            /\ \A i, j \in 1..n : i < j =>
                  IF order = "desc" THEN ~ ColLess(col, s[i], s[j])
                  ELSE ~ ColLess(col, s[j], s[i])}

(* the limit applied before the offset: query.limit(limit) then skip offset rows *)
LimitThenOffset(rows, offset, limit) ==
    SubSeq(rows, offset + 1, Min(Len(rows), limit))

(* query.offset(offset).limit(limit) *)
OffsetLimit(rows, offset, limit) ==
    SubSeq(rows, offset + 1, Min(Len(rows), offset + limit))

(* get_items counting the rows of the page instead of running count_q *)
get_itemsCountsPage(us, its, q, limit, offset, sort_by, order) ==
    IF SortCol(sort_by) \in NonColumnAttributes
    THEN {[error |-> "ArgumentError", items |-> <<>>, total |-> 0]}
    ELSE {[error |-> "", items |-> OffsetLimit(s, offset, limit),
           total |-> Len(OffsetLimit(s, offset, limit))] :
             s \in OrderBy(PageQuery(us, its, q), SortCol(sort_by), order)}

(* every result get_items can give: the page, the total, or the error raised *)
get_items(us, its, q, limit, offset, sort_by, order) ==
    IF SortCol(sort_by) \in NonColumnAttributes
    THEN {[error |-> "ArgumentError", items |-> <<>>, total |-> 0]}
    ELSE LET total == CountQuery(its, q)
         IN  {[error |-> "", items |-> OffsetLimit(s, offset, limit), total |-> total] :
                s \in OrderBy(PageQuery(us, its, q), SortCol(sort_by), order)}

----------------------------------------------------------------------------
(* Requests: the values the clients send *)

MaxLimit == 2
MaxOffset == 2

RegisterNames == {Alice, AB, ShortName}
RegisterPasswords == {Hunter, ShortPass}
LoginNames == {Alice, AB, Zed, ShortName}
LoginPasswords == {Secret, Hunter, ShortPass}
Tokens == {None, Some(<<>>), Some(Tok), Some(TokenPrefix), Some(TokenCapital \o Alice),
           Some(TokenPrefix \o Alice), Some(TokenPrefix \o AB), Some(TokenPrefix \o Zed)}
GatedTokens == {Some(Tok), Some(TokenPrefix \o Alice), Some(TokenPrefix \o AB)}
ItemCreates == {[title |-> BlueWidget, description |-> None],
                [title |-> BlueWidget, description |-> Some(WidgetUpper)],
                [title |-> BadBadwordHere, description |-> None]}
ItemUpdates == {[title |-> None, description |-> None],
                [title |-> Some(ShoutBadword), description |-> None],
                [title |-> None, description |-> Some(WidgetUpper)],
                [title |-> Some(ShortName), description |-> None]}
SearchTerms == {None, Some(<<>>), Some(Widget), Some(LikeTerm)}
Limits == 0..MaxLimit
Offsets == 0..MaxOffset
SortNames == {"id", "title", "metadata", "nosuch"}
Orders == {"asc", "desc"}
ItemIds == 1..MaxItemId

----------------------------------------------------------------------------
(* main.py: the routes.  resp is the outcome of the last request. *)

(* response_model=ItemOut / ItemOut.model_validate: ItemOut extends ItemBase *)
ValidItemOut(item) ==
    ValidItemCreate([title |-> item.title, description |-> item.description])

Init ==
    /\ users = {}
    /\ items = {}
    /\ creator = <<>>
    /\ resp = [op |-> "init", status |-> 0]
    /\ sess = <<>>

(* POST /token *)
login_for_access_token(username, password) ==
    LET token == authenticate_user_and_get_token(users, username, password)
    IN  /\ resp' = [op |-> "login", username |-> username, password |-> password,
                    status |-> IF token = None THEN 401 ELSE 200, token |-> token]
        /\ UNCHANGED <<users, items, creator, sess>>

(* GET /users/me *)
read_users_me(token) ==
    LET current_user == get_current_user(users, token)
    IN  /\ resp' = [op |-> "read_users_me", token |-> token, auth |-> current_user.state,
                    status |-> IF current_user.state = "Rejected" THEN 401 ELSE 200,
                    user |-> current_user.user]
        /\ UNCHANGED <<users, items, creator, sess>>

(* POST /users/ *)
create_user_route(user_in) ==
    IF ~ ValidUserCreate(user_in)
    THEN /\ resp' = [op |-> "create_user", status |-> 422]
         /\ UNCHANGED <<users, items, creator, sess>>
    ELSE LET r == create_user(users, user_in)
         IN  /\ users' = r.users
             /\ resp' = [op |-> "create_user", status |-> IF r.result = None THEN 500 ELSE 200]
             /\ UNCHANGED <<items, creator, sess>>

(* POST /items/ *)
create_item_route(token, item_in) ==
    LET current_user == get_current_user(users, token)
        Resp(auth, status, item_id) ==
            [op |-> "create_item", token |-> token, auth |-> auth, caller |-> current_user.user,
             status |-> status, item_id |-> item_id]
    IN  IF current_user.state = "Rejected"
        THEN /\ resp' = Resp("Rejected", 401, 0)
             /\ UNCHANGED <<users, items, creator, sess>>
        ELSE IF ~ ValidItemCreate(item_in)
        THEN /\ resp' = Resp("UserResolved", 422, 0)
             /\ UNCHANGED <<users, items, creator, sess>>
        ELSE LET r == create_item(users, items, item_in, current_user.user[1].username)
             IN  IF r.result = None
                 THEN /\ resp' = Resp("UserResolved", 500, 0)
                      /\ UNCHANGED <<users, items, creator, sess>>
                 ELSE /\ Cardinality(items) < MaxItems
                      /\ r.result[1].id <= MaxItemId
                      /\ items' = r.items
                      /\ creator' = [i \in {j.id : j \in r.items} |->
                                        IF i = r.result[1].id
                                        THEN current_user.user[1].username
                                        ELSE creator[i]]
                      /\ resp' = Resp("UserResolved",
                                      IF ValidItemOut(r.result[1]) THEN 200 ELSE 500,
                                      r.result[1].id)
                      /\ UNCHANGED <<users, sess>>

NotOwned == "Item not found or not owned by you"

(* PUT /items/{item_id} *)
update_item_route(token, item_id, item_in) ==
    LET current_user == get_current_user(users, token)
        Resp(auth, status, detail) ==
            [op |-> "update_item", token |-> token, auth |-> auth, caller |-> current_user.user,
             item_id |-> item_id, status |-> status, detail |-> detail]
    IN  IF current_user.state = "Rejected"
        THEN /\ resp' = Resp("Rejected", 401, current_user.detail)
             /\ UNCHANGED <<users, items, creator, sess>>
        ELSE IF ~ ValidItemUpdate(item_in)
        THEN /\ resp' = Resp("UserResolved", 422, "validation")
             /\ UNCHANGED <<users, items, creator, sess>>
        ELSE LET r == update_item(users, items, item_id, item_in,
                                  current_user.user[1].username)
             IN  /\ items' = r.items
                 /\ resp' = IF r.result = None THEN Resp("UserResolved", 404, NotOwned)
                            ELSE IF ValidItemOut(r.result[1])
                            THEN Resp("UserResolved", 200, "")
                            ELSE Resp("UserResolved", 500, "response validation")
                 /\ UNCHANGED <<users, creator, sess>>

(* DELETE /items/{item_id} *)
delete_item_route(token, item_id) ==
    LET current_user == get_current_user(users, token)
        Resp(auth, status, detail) ==
            [op |-> "delete_item", token |-> token, auth |-> auth, caller |-> current_user.user,
             item_id |-> item_id, status |-> status, detail |-> detail]
    IN  IF current_user.state = "Rejected"
        THEN /\ resp' = Resp("Rejected", 401, current_user.detail)
             /\ UNCHANGED <<users, items, creator, sess>>
        ELSE LET r == delete_item(users, items, item_id, current_user.user[1].username)
             IN  /\ items' = r.items
                 /\ creator' = [i \in {j.id : j \in r.items} |-> creator[i]]
                 /\ resp' = IF r.result THEN Resp("UserResolved", 200, "")
                            ELSE Resp("UserResolved", 404, NotOwned)
                 /\ UNCHANGED <<users, sess>>

Next ==
    \/ \E username \in RegisterNames, password \in RegisterPasswords :
          create_user_route([username |-> username, full_name |-> None,
                             password |-> password])
    \/ \E token \in GatedTokens, item_in \in ItemCreates : create_item_route(token, item_in)
    \/ \E token \in GatedTokens, item_id \in ItemIds, item_in \in ItemUpdates :
          update_item_route(token, item_id, item_in)
    \/ \E token \in GatedTokens, item_id \in ItemIds : delete_item_route(token, item_id)

Spec == Init /\ [][Next]_vars

(* the registration and token routes alone *)
NextAuth ==
    \/ \E username \in LoginNames, password \in LoginPasswords :
          login_for_access_token(username, password)
    \/ \E token \in Tokens : read_users_me(token)
    \/ \E username \in RegisterNames, password \in RegisterPasswords :
          create_user_route([username |-> username, full_name |-> None,
                             password |-> password])

SpecAuth == Init /\ [][NextAuth]_vars

----------------------------------------------------------------------------
(* GET /items/: the query applied to a store, one call per behaviour *)

(* GET /items/ *)
list_items ==
    /\ resp.op = "list_items"
    /\ resp.status = 0
    /\ IF resp.limit <= 0 \/ resp.limit > 100 \/ resp.offset < 0
       THEN resp' = [resp EXCEPT !.status = 422]
       ELSE \E r \in get_items(users, items, resp.q, resp.limit, resp.offset,
                               resp.sort_by, resp.order) :
               resp' = IF r.error # "" \/ \E k \in 1..Len(r.items) : ~ ValidItemOut(r.items[k])
                       THEN [resp EXCEPT !.status = 500]
                       ELSE [resp EXCEPT !.status = 200, !.items = r.items,
                                         !.total = r.total]
    /\ UNCHANGED <<users, items, creator, sess>>

(* stores the routes of Spec build: two registered users who create items *)
(* in turn, ids up to MaxItemId, each item with a stored title and         *)
(* description                                                             *)
StoredUsers ==
    {[id |-> 1, username |-> Alice, full_name |-> None,
      hashed_password |-> fake_hash_password(Hunter)],
     [id |-> 2, username |-> AB, full_name |-> None,
      hashed_password |-> fake_hash_password(Hunter)]}

OwnerInTurn(i) == CHOOSE u \in StoredUsers : u.id = 2 - (i % 2)

StoredTitles == {BlueWidget, ShoutBadword}
StoredDescriptions == {None, Some(WidgetUpper)}

InitList ==
    /\ users = StoredUsers
    /\ \E ids \in SUBSET (1..MaxItemId) :
          /\ Cardinality(ids) <= MaxItems
          /\ \E f \in [ids -> [title : StoredTitles, description : StoredDescriptions]] :
                /\ items = {[id |-> i, title |-> f[i].title,
                             description |-> f[i].description,
                             owner_id |-> OwnerInTurn(i).id] : i \in ids}
                /\ creator = [i \in ids |-> OwnerInTurn(i).username]
    /\ \E q \in SearchTerms, limit \in Limits, offset \in Offsets,
          sort_by \in SortNames, order \in Orders :
          resp = [op |-> "list_items", status |-> 0, q |-> q, limit |-> limit,
                  offset |-> offset, sort_by |-> sort_by, order |-> order,
                  items |-> <<>>, total |-> 0]
    /\ sess = <<>>

NextList == list_items

SpecList == InitList /\ [][NextList]_vars

----------------------------------------------------------------------------
(* Calls in flight.  Each request has a session of its own                 *)
(* (database.get_session) and its store call advances from one await to    *)
(* the next, other requests running in between.  The database applies the  *)
(* statements one commit flushes as a single write.                        *)

MaxRequests == 2
Requests == 1..MaxRequests

(* crud.create_user, lines 20-25: the row is built and added to the session *)
create_user_add(p) ==
    /\ sess[p].op = "create_user"
    /\ sess[p].pc = "start"
    /\ sess' = [sess EXCEPT ![p].pc = "added"]
    /\ UNCHANGED <<users, items, creator, resp>>

(* line 26, await db.commit(): the INSERT is flushed and committed, or the *)
(* unique index on users.username raises IntegrityError                    *)
create_user_commit(p) ==
    /\ sess[p].op = "create_user"
    /\ sess[p].pc = "added"
    /\ LET r == create_user(users, sess[p].user_in)
       IN  IF r.result = None
           THEN /\ sess' = [sess EXCEPT ![p].pc = "IntegrityError"]
                /\ UNCHANGED users
           ELSE /\ users' = r.users
                /\ sess' = [sess EXCEPT ![p].pc = "committed", ![p].result = r.result]
    /\ UNCHANGED <<items, creator, resp>>

(* lines 27-28: the row is refreshed and returned *)
create_user_return(p) ==
    /\ sess[p].op = "create_user"
    /\ sess[p].pc = "committed"
    /\ sess' = [sess EXCEPT ![p].pc = "returned"]
    /\ UNCHANGED <<users, items, creator, resp>>

ZedUser == [id |-> 1, username |-> Zed, full_name |-> None,
            hashed_password |-> fake_hash_password(Hunter)]

ConcurrentNames == {Alice, AB}

(* registrations that start together, none of their usernames stored yet *)
InitUsers ==
    /\ users \in {{}, {ZedUser}}
    /\ items = {}
    /\ creator = <<>>
    /\ resp = [op |-> "init", status |-> 0]
    /\ sess \in [Requests -> {[op |-> "create_user", pc |-> "start",
                               user_in |-> [username |-> n, full_name |-> None,
                                            password |-> Hunter],
                               result |-> None] : n \in ConcurrentNames}]

NextUsers ==
    \/ \E p \in Requests : create_user_add(p)
    \/ \E p \in Requests : create_user_commit(p)
    \/ \E p \in Requests : create_user_return(p)

SpecUsers == InitUsers /\ [][NextUsers]_vars

----------------------------------------------------------------------------
(* update_item and delete_item in flight: the lookup and the commit are    *)
(* two awaits, and other requests' statements run in between               *)

(* crud.update_item, lines 83-87: the owner-joined lookup; None is returned *)
(* when it finds nothing, otherwise the session holds the row              *)
update_item_lookup(p) ==
    /\ sess[p].op = "update_item"
    /\ sess[p].pc = "start"
    /\ LET item == OwnedItem(users, items, sess[p].item_id, sess[p].owner_username)
       IN  sess' = IF item = None
                   THEN [sess EXCEPT ![p].pc = "returned"]
                   ELSE [sess EXCEPT ![p].pc = "loaded", ![p].item = item]
    /\ UNCHANGED <<users, items, creator, resp>>

(* the UPDATE a flush emits sets the columns whose value was changed on    *)
(* the session's object, on the row with its primary key                   *)
WriteChanged(row, loaded, updated) ==
    [row EXCEPT !.title = IF updated.title # loaded.title THEN updated.title ELSE @,
                !.description = IF updated.description # loaded.description
                                THEN updated.description ELSE @]

(* lines 92-98: the assignments, then await db.commit().  With no column   *)
(* changed nothing is written; otherwise the UPDATE is written, and when   *)
(* it matches no row the flush raises StaleDataError                       *)
update_item_commit(p) ==
    /\ sess[p].op = "update_item"
    /\ sess[p].pc = "loaded"
    /\ LET loaded == sess[p].item[1]
           updated == ApplyPatch(loaded, sess[p].item_in)
           row == get_item(items, loaded.id)
       IN  IF updated = loaded
           THEN /\ sess' = [sess EXCEPT ![p].pc = "committed"]
                /\ UNCHANGED items
           ELSE IF row = None
           THEN /\ sess' = [sess EXCEPT ![p].pc = "StaleDataError"]
                /\ UNCHANGED items
           ELSE /\ items' = (items \ {row[1]}) \cup {WriteChanged(row[1], loaded, updated)}
                /\ sess' = [sess EXCEPT ![p].pc = "committed", ![p].item = Some(updated)]
    /\ UNCHANGED <<users, creator, resp>>

(* lines 99-100: await db.refresh(item) selects the row by primary key and *)
(* raises InvalidRequestError when it is gone; the refreshed item is       *)
(* returned                                                                *)
update_item_refresh(p) ==
    /\ sess[p].op = "update_item"
    /\ sess[p].pc = "committed"
    /\ LET row == get_item(items, sess[p].item[1].id)
       IN  sess' = IF row = None
                   THEN [sess EXCEPT ![p].pc = "InvalidRequestError"]
                   ELSE [sess EXCEPT ![p].pc = "returned", ![p].result = row]
    /\ UNCHANGED <<users, items, creator, resp>>

(* crud.delete_item, lines 104-108: the same lookup; False when it finds   *)
(* nothing                                                                 *)
delete_item_lookup(p) ==
    /\ sess[p].op = "delete_item"
    /\ sess[p].pc = "start"
    /\ LET item == OwnedItem(users, items, sess[p].item_id, sess[p].owner_username)
       IN  sess' = IF item = None
                   THEN [sess EXCEPT ![p].pc = "returned"]
                   ELSE [sess EXCEPT ![p].pc = "loaded", ![p].item = item]
    /\ UNCHANGED <<users, resp, items, creator>>

(* lines 109-111: db.delete(item), await db.commit(), return True.  The    *)
(* DELETE names the row by primary key; a DELETE that matches no row is a  *)
(* warning of the mapper, not an error, so True is returned all the same   *)
delete_item_commit(p) ==
    /\ sess[p].op = "delete_item"
    /\ sess[p].pc = "loaded"
    /\ items' = {i \in items : i.id # sess[p].item[1].id}
    /\ creator' = [i \in {j.id : j \in items'} |-> creator[i]]
    /\ sess' = [sess EXCEPT ![p].pc = "returned", ![p].ok = TRUE]
    /\ UNCHANGED <<users, resp>>

RacePatches == {[title |-> None, description |-> None],
                [title |-> Some(ShoutBadword), description |-> None]}

(* the calls of one caller on the items of a store, started together *)
RaceCalls ==
    {[op |-> "delete_item", pc |-> "start", item_id |-> item_id,
      owner_username |-> Alice, item |-> None, ok |-> FALSE] : item_id \in ItemIds}
    \cup
    {[op |-> "update_item", pc |-> "start", item_id |-> item_id,
      owner_username |-> Alice, item_in |-> item_in, item |-> None, result |-> None] :
        item_id \in ItemIds, item_in \in RacePatches}

InitRace ==
    /\ users = StoredUsers
    /\ \E ids \in SUBSET (1..MaxItemId) :
          /\ Cardinality(ids) <= MaxItems
          /\ items = {[id |-> i, title |-> BlueWidget, description |-> None,
                       owner_id |-> OwnerInTurn(i).id] : i \in ids}
          /\ creator = [i \in ids |-> OwnerInTurn(i).username]
    /\ resp = [op |-> "init", status |-> 0]
    /\ sess \in [Requests -> RaceCalls]

NextRace ==
    \/ \E p \in Requests : update_item_lookup(p)
    \/ \E p \in Requests : update_item_commit(p)
    \/ \E p \in Requests : update_item_refresh(p)
    \/ \E p \in Requests : delete_item_lookup(p)
    \/ \E p \in Requests : delete_item_commit(p)

SpecRace == InitRace /\ [][NextRace]_vars

----------------------------------------------------------------------------
(* Deleting a user.  models.py declares what becomes of a deleted user's   *)
(* items; no route and no function of crud.py deletes a user, so the       *)
(* operation itself is the one the specification of the service describes. *)

(* a delete that leaves the items of the deleted user in place *)
CascadeNone(its, user_id) == its

(* User.items has cascade="all, delete-orphan" and Item.owner_id has       *)
(* ondelete="CASCADE": the items of the deleted user go with the user      *)
Cascade(its, user_id) == {i \in its : i.owner_id # user_id}

delete_user(us, its, user_id) ==
    IF \E u \in us : u.id = user_id
    THEN [users |-> {u \in us : u.id # user_id}, items |-> Cascade(its, user_id),
          result |-> TRUE]
    ELSE [users |-> us, items |-> its, result |-> FALSE]

delete_user_request(user_id) ==
    LET r == delete_user(users, items, user_id)
    IN  /\ users' = r.users
        /\ items' = r.items
        /\ creator' = [i \in {j.id : j \in r.items} |-> creator[i]]
        /\ resp' = [op |-> "delete_user", user_id |-> user_id,
                    status |-> IF r.result THEN 200 ELSE 404,
                    removed |-> {i.id : i \in items \ r.items}]
        /\ UNCHANGED sess

UserIds == {u.id : u \in StoredUsers}

(* stores of the two registered users, each item owned by either of them *)
InitCascade ==
    /\ users = StoredUsers
    /\ \E ids \in SUBSET (1..MaxItemId) :
          /\ Cardinality(ids) <= MaxItems
          /\ \E f \in [ids -> [title : StoredTitles, description : StoredDescriptions,
                                owner : StoredUsers]] :
                /\ items = {[id |-> i, title |-> f[i].title,
                             description |-> f[i].description,
                             owner_id |-> f[i].owner.id] : i \in ids}
                /\ creator = [i \in ids |-> f[i].owner.username]
    /\ resp = [op |-> "init", status |-> 0]
    /\ sess = <<>>

NextCascade == \E user_id \in UserIds : delete_user_request(user_id)

SpecCascade == InitCascade /\ [][NextCascade]_vars

----------------------------------------------------------------------------
(* PUT and DELETE /items/{item_id}: one request applied to a store, one    *)
(* request per behaviour, so that the store before and the store after can *)
(* be compared with the request                                            *)

ItemPatches == ItemUpdates \cup {[title |-> Some(ShoutBadword), description |-> Some(Widget)]}

InitItem ==
    /\ users = StoredUsers
    /\ \E ids \in SUBSET (1..MaxItemId) :
          /\ Cardinality(ids) <= MaxItems
          /\ \E f \in [ids -> [title : StoredTitles, description : StoredDescriptions,
                                owner : StoredUsers]] :
                /\ items = {[id |-> i, title |-> f[i].title,
                             description |-> f[i].description,
                             owner_id |-> f[i].owner.id] : i \in ids}
                /\ creator = [i \in ids |-> f[i].owner.username]
    /\ \E token \in GatedTokens, item_id \in ItemIds :
          \/ \E item_in \in ItemPatches :
                resp = [op |-> "update_item", status |-> 0, token |-> token,
                        item_id |-> item_id, item_in |-> item_in]
          \/ resp = [op |-> "delete_item", status |-> 0, token |-> token,
                     item_id |-> item_id]
    /\ sess = <<>>

NextItem ==
    \/ /\ resp.op = "update_item"
       /\ resp.status = 0
       /\ update_item_route(resp.token, resp.item_id, resp.item_in)
    \/ /\ resp.op = "delete_item"
       /\ resp.status = 0
       /\ delete_item_route(resp.token, resp.item_id)

SpecItem == InitItem /\ [][NextItem]_vars

----------------------------------------------------------------------------
(* Ownership *)

StoredIds == {i.id : i \in items}

(* ids no stored item has; 0 and MaxItemId + 1 are never stored *)
UnusedIds == (0..(MaxItemId + 1)) \ StoredIds

(* the callers the gated routes resolve in the current state *)
ResolvedCallers ==
    {get_current_user(users, t).user[1].username :
        t \in {k \in GatedTokens : get_current_user(users, k).state = "UserResolved"}}

(* C1: for an item created by U and a resolved caller V # U, update_item    *)
(* returns nothing-found and delete_item returns false, leaving the store   *)
(* as it is, which is the result of the same call for an id no item has;    *)
(* the routes answer both with the same 404 and detail                      *)
NonOwnerGetsNotFound ==
    /\ \A i \in items : \A V \in ResolvedCallers \ {creator[i.id]} :
          /\ \A item_in \in ItemUpdates :
                /\ update_item(users, items, i.id, item_in, V) =
                      [items |-> items, result |-> None]
                /\ \A n \in UnusedIds :
                      update_item(users, items, n, item_in, V) =
                         update_item(users, items, i.id, item_in, V)
          /\ delete_item(users, items, i.id, V) = [items |-> items, result |-> FALSE]
          /\ \A n \in UnusedIds :
                delete_item(users, items, n, V) = delete_item(users, items, i.id, V)
    /\ resp.op \in {"update_item", "delete_item"} /\ resp.auth = "UserResolved"
         /\ resp.status # 422
         /\ (resp.item_id \notin StoredIds
               \/ resp.caller[1].username # creator[resp.item_id])
         /\ ~ (resp.op = "delete_item" /\ resp.status = 200)
       => resp.status = 404 /\ resp.detail = NotOwned

(* a stored user asked to update another user's stored item and got 404 *)
NonOwnerUpdateSeen ==
    /\ resp.op = "update_item"
    /\ resp.status = 404
    /\ resp.caller # None
    /\ resp.caller[1].id # 0
    /\ resp.item_id \in StoredIds
    /\ resp.caller[1].username # creator[resp.item_id]

(* C2: every stored item has exactly one owner, the owner is a stored user, *)
(* and it is the caller that created the item                               *)
OwnerIsCreator ==
    \A i \in items :
        /\ Cardinality({u \in users : u.id = i.owner_id}) = 1
        /\ \A u \in users : u.id = i.owner_id => u.username = creator[i.id]
        /\ Cardinality({j \in items : j.id = i.id}) = 1

(* the second registered user owns an item that its owner has updated *)
UpdatedItemKeepsOwner ==
    /\ resp.op = "update_item"
    /\ resp.status \in {200, 500}
    /\ Cardinality(users) = 2
    /\ \E i \in items : /\ i.id = resp.item_id
                        /\ i.owner_id = 2
                        /\ i.description # None

----------------------------------------------------------------------------
(* Authentication *)

(* C3: authenticate returns a token only on exact match: a login for a     *)
(* stored user, alice included, with a password whose hash differs from    *)
(* the stored hash gets no token                                           *)
TokenOnlyOnExactMatch ==
    resp.op = "login" =>
        \A u \in users :
            /\ u.username = resp.username
            /\ fake_hash_password(resp.password) # u.hashed_password
            => resp.token = None

(* C4: for every registered (username, password), authenticate issues a    *)
(* token and get_current_user resolves the token to the user with the      *)
(* registered username                                                     *)
TokenRoundTrip ==
    /\ \A u \in users : \A password \in RegisterPasswords :
          u.hashed_password = fake_hash_password(password) =>
             LET token == authenticate_user_and_get_token(users, u.username, password)
             IN  /\ token # None
                 /\ get_current_user(users, token).state = "UserResolved"
                 /\ get_current_user(users, token).user = Some(UserOut(u))
    /\ resp.op = "login" /\ resp.status = 200 =>
          /\ get_current_user(users, resp.token).state = "UserResolved"
          /\ get_current_user(users, resp.token).user[1].username = resp.username

(* the token issued for the registered name a-b resolved to the user a-b *)
DashedNameResolved ==
    /\ resp.op = "read_users_me"
    /\ resp.status = 200
    /\ \E u \in users :
          /\ u.username = AB
          /\ resp.token = authenticate_user_and_get_token(users, AB, Hunter)
          /\ resp.user = Some(UserOut(u))

----------------------------------------------------------------------------
(* Identity resolution *)

GatedOps == {"create_item", "update_item", "delete_item"}

(* the username a token of the shape token-<username> embeds *)
EmbeddedName(token) == SubSeq(token, Len(TokenPrefix) + 1, Len(token))

HasTokenShape(token) == \E n \in 0..Len(token) : token = TokenPrefix \o SubSeq(token, Len(token) - n + 1, Len(token))

ShouldResolve(us, token) ==
    /\ token # None
    /\ HasTokenShape(token[1])
    /\ \/ \E u \in us : u.username = EmbeddedName(token[1])
       \/ EmbeddedName(token[1]) = Alice

(* the user a resolvable token stands for: the stored user of that name,  *)
(* or the synthetic alice when no alice is stored                         *)
ResolvesTo(us, token, user) ==
    IF \E u \in us : u.username = EmbeddedName(token[1])
    THEN \E u \in us : u.username = EmbeddedName(token[1]) /\ user = UserOut(u)
    ELSE user.id = 0 /\ user.username = Alice

(* resolution of every token against the stored users us *)
ResolutionAsSpecified(us) ==
    \A token \in Tokens \cup GatedTokens :
        LET r == get_current_user(us, token)
        IN  /\ r.state \in {"UserResolved", "Rejected"}
            /\ r.state = "UserResolved" <=> ShouldResolve(us, token)
            /\ r.state = "UserResolved" => ResolvesTo(us, token, r.user[1])

(* C5: resolution ends in UserResolved if and only if a token is supplied, *)
(* has the shape token-<username> and the username is stored or is alice;  *)
(* otherwise it ends in Rejected, and a gated route that ends in Rejected  *)
(* answers 401 and leaves the store as it was.  The resolution of every    *)
(* token is looked at from the first state on and whenever the stored      *)
(* users change, that of the request's token in every gated request.       *)
ResolutionGatesOwnership ==
    [][/\ resp.op = "init" \/ users' # users => ResolutionAsSpecified(users')
       /\ resp'.op \in GatedOps =>
             /\ resp'.auth \in {"UserResolved", "Rejected"}
             /\ resp'.auth = "UserResolved" <=> ShouldResolve(users, resp'.token)
             /\ resp'.auth = "UserResolved" => ResolvesTo(users, resp'.token, resp'.caller[1])
             /\ resp'.auth = "Rejected" =>
                   /\ resp'.status = 401
                   /\ users' = users /\ items' = items /\ creator' = creator]_vars

(* a gated request with a malformed token was rejected while items are stored *)
RejectedBeforeGatedOp ==
    /\ resp.op \in GatedOps
    /\ resp.auth = "Rejected"
    /\ resp.token = Some(Tok)
    /\ items # {}

----------------------------------------------------------------------------
(* Stored titles *)

(* C10: every stored item's title has 3 to 200 characters of the allowed   *)
(* class and contains no banned substring in any letter case               *)
StoredTitlesValid ==
    \A i \in items :
        /\ Len(i.title) >= TitleMinLen
        /\ Len(i.title) <= TitleMaxLen
        /\ \A k \in 1..Len(i.title) : i.title[k] \in TitleChars
        /\ \A b \in banned : ~ Contains(Lower(i.title), b)

----------------------------------------------------------------------------
(* Listing *)

ListDone == resp.op = "list_items" /\ resp.status \in {200, 500}

(* C6: the total get_items returns is the number of items the query's      *)
(* filter selects in the store for the search term, a number in which the  *)
(* limit and the offset of the call do not occur                           *)
TotalIndependentOfPage ==
    ListDone =>
        /\ \A r \in get_items(users, items, resp.q, resp.limit, resp.offset,
                              resp.sort_by, resp.order) :
              r.error = "" => r.total = Cardinality(PageQuery(users, items, resp.q))
        /\ resp.status = 200 => resp.total = Cardinality(PageQuery(users, items, resp.q))

(* a page that starts after the first match reports both matches *)
TotalSeenBeyondPage ==
    /\ resp.op = "list_items"
    /\ resp.status = 200
    /\ resp.q = Some(Widget)
    /\ resp.offset = 1
    /\ resp.limit = 1
    /\ resp.total = 2
    /\ Len(resp.items) = 1

(* C7: the page has min(limit, max(0, total - offset)) items, total being  *)
(* the total of the same call                                              *)
PageLength ==
    ListDone =>
        /\ \A r \in get_items(users, items, resp.q, resp.limit, resp.offset,
                              resp.sort_by, resp.order) :
              r.error = "" =>
                 Len(r.items) = Min(resp.limit, Max(0, r.total - resp.offset))
        /\ resp.status = 200 =>
              Len(resp.items) = Min(resp.limit, Max(0, resp.total - resp.offset))

(* limit 2 at offset 1 of two matches gives the one item that is left *)
ShortLastPage ==
    /\ resp.op = "list_items"
    /\ resp.status = 200
    /\ resp.total = 2
    /\ resp.offset = 1
    /\ resp.limit = 2
    /\ Len(resp.items) = 1

(* C8: with a sort_by that is no column of Item, get_items raises nothing  *)
(* and gives the items and total of the same call with sort_by = "id"      *)
UnknownSortIsIdSort ==
    ListDone /\ resp.sort_by \notin ItemColumns =>
        /\ \A r \in get_items(users, items, resp.q, resp.limit, resp.offset,
                              resp.sort_by, resp.order) : r.error = ""
        /\ get_items(users, items, resp.q, resp.limit, resp.offset, resp.sort_by,
                     resp.order)
             = get_items(users, items, resp.q, resp.limit, resp.offset, "id", resp.order)

(* q occurs in s as a literal substring, letter case aside *)
OccursIn(q, s) == Contains(Lower(s), Lower(q))

(* C9: with a search term, the items matched are exactly those whose title *)
(* or description has the term as a case-insensitive literal substring;    *)
(* with no term every item matches                                         *)
SearchIsLiteralSubstring ==
    ListDone =>
        PageQuery(users, items, resp.q) =
           {i \in items : \/ resp.q = None
                          \/ OccursIn(resp.q[1], i.title)
                          \/ i.description # None /\ OccursIn(resp.q[1], i.description[1])}

----------------------------------------------------------------------------
(* Concurrent registration *)

CreateUserCalls(name) ==
    {p \in DOMAIN sess : sess[p].op = "create_user" /\ sess[p].user_in.username = name}

CreateUserOver(p) == sess[p].pc \in {"returned", "IntegrityError"}

(* C11: when two or more create_user calls with one username run           *)
(* concurrently and all are over, exactly one has returned its user, the   *)
(* others have failed on the unique index, and exactly one stored user has *)
(* that username: the one the winner returned                              *)
OneCreateUserWins ==
    \A name \in ConcurrentNames :
        LET calls == CreateUserCalls(name)
            won == {p \in calls : sess[p].pc = "returned"}
        IN  (Cardinality(calls) >= 2 /\ \A p \in calls : CreateUserOver(p)) =>
                /\ Cardinality(won) = 1
                /\ \A p \in calls \ won : sess[p].pc = "IntegrityError"
                /\ {u \in users : u.username = name} = {sess[p].result[1] : p \in won}

CreateUserRaceLost ==
    \E p, q \in DOMAIN sess :
        /\ p # q
        /\ sess[p].op = "create_user" /\ sess[q].op = "create_user"
        /\ sess[p].user_in.username = sess[q].user_in.username
        /\ sess[p].pc = "returned"
        /\ sess[q].pc = "IntegrityError"

----------------------------------------------------------------------------
(* Create *)

ValidCreates == {item_in \in ItemCreates : ValidItemCreate(item_in)}

(* C12: create_item for a resolved caller with a stored user row adds one  *)
(* item, with a new id, the given title and description and the caller's   *)
(* id as owner; for a caller with no stored row (the fallback "alice") it  *)
(* fails with "owner not found" and leaves the items as they are.  The     *)
(* last create request shows the same: an item of the caller stored, or    *)
(* status 500 and no item id                                               *)
CreateBindsCallerOrFails ==
    /\ \A V \in ResolvedCallers, item_in \in ValidCreates :
          LET owner == get_user_by_username(users, V)
              r == create_item(users, items, item_in, V)
          IN  IF owner = None
              THEN r = [items |-> items, result |-> None, error |-> "owner not found"]
              ELSE /\ r.result # None
                   /\ r.error = ""
                   /\ r.result[1].id \notin StoredIds
                   /\ r.result[1].owner_id = owner[1].id
                   /\ r.result[1].title = item_in.title
                   /\ r.result[1].description = item_in.description
                   /\ r.items = items \cup {r.result[1]}
    /\ resp.op = "create_item" /\ resp.auth = "UserResolved" /\ resp.status # 422 =>
          IF get_user_by_username(users, resp.caller[1].username) = None
          THEN resp.status = 500 /\ resp.item_id = 0
          ELSE /\ resp.status = 200
               /\ \E i \in items : /\ i.id = resp.item_id
                                    /\ i.owner_id = resp.caller[1].id
                                    /\ creator[i.id] = resp.caller[1].username

(* the fallback alice, no row of hers stored, has asked to create an item  *)
(* in a store that holds an item of another user                           *)
FallbackCreateFailed ==
    /\ resp.op = "create_item"
    /\ resp.status = 500
    /\ resp.caller # None
    /\ resp.caller[1].username = Alice
    /\ get_user_by_username(users, Alice) = None
    /\ items # {}

----------------------------------------------------------------------------
(* Cascade *)

(* C13: no stored item has an owner that is not stored; deleting a stored  *)
(* user U leaves exactly the items of the other users, each as it was, and *)
(* the last delete of a user has removed the user and items only           *)
CascadeLeavesNoOrphan ==
    /\ \A i \in items : \E u \in users : u.id = i.owner_id
    /\ \A U \in users :
          LET r == delete_user(users, items, U.id)
          IN  /\ r.result
              /\ r.users = users \ {U}
              /\ \A i \in items : i \in r.items <=> i.owner_id # U.id
              /\ r.items \subseteq items
    /\ resp.op = "delete_user" /\ resp.status = 200 =>
          /\ \A u \in users : u.id # resp.user_id
          /\ \A i \in items : i.owner_id # resp.user_id
          /\ resp.removed \cap StoredIds = {}

(* a user with an item was deleted, and an item of the other user is still *)
(* stored                                                                  *)
UserDeletedWithItems ==
    /\ resp.op = "delete_user"
    /\ resp.status = 200
    /\ resp.removed # {}
    /\ items # {}
    /\ users # {}

----------------------------------------------------------------------------
(* Update and delete: what changes and what stays *)

(* the items with the id of the pending request that its caller owns *)
OwnedByCaller(caller) ==
    {i \in items : /\ i.id = resp.item_id
                   /\ \E u \in users : u.id = i.owner_id /\ u.username = caller}

(* C14: an update that finds the caller's item (the route answers 200, or  *)
(* 500 when the stored result fails the response check) replaces that item *)
(* by one with the same id and owner, each provided field of the patch as  *)
(* given and each field not provided as it was; every other item and every *)
(* user is as before                                                       *)
UpdateChangesProvidedFieldsOnly ==
    [][resp.op = "update_item" /\ resp.status = 0 /\ resp'.status \in {200, 500} =>
          \E i \in OwnedByCaller(resp'.caller[1].username) :
              LET item_in == resp.item_in
                  updated == [id |-> i.id,
                              owner_id |-> i.owner_id,
                              title |-> IF item_in.title = None THEN i.title
                                        ELSE item_in.title[1],
                              description |-> IF item_in.description = None
                                              THEN i.description
                                              ELSE item_in.description]
              IN  /\ items' = (items \ {i}) \cup {updated}
                  /\ \A j \in items \ {i} : j \in items' /\ j.id # i.id
                  /\ users' = users]_vars

(* the owner has patched the title alone of one of two stored items: the   *)
(* description it had is kept                                              *)
TitleAlonePatched ==
    /\ resp.op = "update_item"
    /\ resp.status = 500
    /\ Cardinality(items) = 2
    /\ \E i \in items : /\ i.id = resp.item_id
                        /\ i.title = ShoutBadword
                        /\ i.description = Some(WidgetUpper)
                        /\ \E j \in items : j.title = BlueWidget

(* C15: delete_item returns true (the route answers 200) exactly when an   *)
(* item with the id owned by the caller is stored; then exactly that item  *)
(* is gone, get_item finds nothing for the id and the other items are as   *)
(* before; after false (404), and after an update that found nothing       *)
(* (404), items and users are as before                                    *)
DeleteRemovesExactlyOwned ==
    [][/\ resp.op = "delete_item" /\ resp.status = 0 /\ resp'.auth = "UserResolved" =>
            LET owned == OwnedByCaller(resp'.caller[1].username)
            IN  /\ resp'.status = 200 <=> owned # {}
                /\ resp'.status \in {200, 404}
                /\ resp'.status = 200 =>
                      /\ Cardinality(owned) = 1
                      /\ items' = items \ owned
                      /\ get_item(items', resp.item_id) = None
                /\ resp'.status = 404 => items' = items
                /\ users' = users
       /\ resp.op = "update_item" /\ resp.status = 0 /\ resp'.status = 404 =>
            /\ OwnedByCaller(resp'.caller[1].username) = {}
            /\ items' = items
            /\ users' = users]_vars

(* the owner has deleted one of two stored items of theirs *)
OwnedItemDeleted ==
    /\ resp.op = "delete_item"
    /\ resp.status = 200
    /\ resp.item_id \notin StoredIds
    /\ \E i \in items : i.owner_id = resp.caller[1].id

----------------------------------------------------------------------------
(* Concurrent update and delete *)

DeletesReturnedTrue(item_id) ==
    {p \in DOMAIN sess : /\ sess[p].op = "delete_item"
                         /\ sess[p].item_id = item_id
                         /\ sess[p].pc = "returned"
                         /\ sess[p].ok}

(* C16: of the concurrent deletes of one item at most one returns true; a  *)
(* concurrent update ends with the updated item or with nothing-found and  *)
(* with no other failure; and once a delete of an item has returned true   *)
(* the item is not stored                                                  *)
UpdateDeleteAtomic ==
    /\ \A item_id \in ItemIds : Cardinality(DeletesReturnedTrue(item_id)) <= 1
    /\ \A p \in DOMAIN sess :
          sess[p].op = "update_item" =>
              sess[p].pc \in {"start", "loaded", "committed", "returned"}
    /\ \A item_id \in ItemIds :
          DeletesReturnedTrue(item_id) # {} => item_id \notin StoredIds

====
